---------------------------- MODULE Spec2Model ----------------------------
(***************************************************************************)
(* jinja-try-catch: the {% try %} / {% catch %} / {% endtry %} tag.        *)
(*                                                                         *)
(* The model follows src/jinja_try_catch/extension.py: the parse-time      *)
(* transform (TryCatchExtension.parse, _parse_statements_or_empty) and the *)
(* two runtime dispatchers (_sync_try_catch, _try_catch), run by a small   *)
(* stack machine that stands for the host engine's renderer (Scope, Macro, *)
(* CallBlock and Output nodes).  One behaviour parses a template source    *)
(* and renders it twice, as src/tests/test_try_catch.py does: first in a   *)
(* blocking environment, then in a suspend-capable one.                    *)
(***************************************************************************)
EXTENDS Integers, Sequences, FiniteSets, TLC

VARIABLES
    source,        \* the template source, a sequence of tokens
    native,        \* TRUE: NativeEnvironment, FALSE: Environment
    is_async,      \* environment.is_async of the render in progress
    deferred,      \* async render: block callables return awaitables
    pc,            \* "parse", "sync", "async", "done", "syntax_error"
    ast,           \* the node list the parser produced
    stack,         \* the renderer's frames, innermost last
    outcome,       \* the result of the render in progress
    acts,          \* one record per dispatcher activation of this render
    checks,        \* the `_on_catch is defined` tests evaluated so far
    sync_outcome,  \* outcome of the finished blocking render
    sync_acts      \* acts of the finished blocking render

vars == <<source, native, is_async, deferred, pc, ast, stack, outcome,
          acts, checks, sync_outcome, sync_acts>>

(***************************************************************************)
(* Bounds of the model.                                                    *)
(***************************************************************************)
\* Text chunks a block may output before its last statement.
MaxOut == 1

(***************************************************************************)
(* Values of the rendering pipeline.                                       *)
(***************************************************************************)
Str(s) == [t |-> "str", s |-> s]
None == [t |-> "none", s |-> <<>>]
Bool(b) == [t |-> "bool", s |-> IF b THEN <<"True">> ELSE <<"False">>]
Undefined == [t |-> "undefined", s |-> <<>>]
\* An exception object: its class and the token that raised it.
Exc(cls, at) == [t |-> "exc", s |-> <<cls>>, cls |-> cls, at |-> at]
\* The awaitable a block callable returns in a suspend-capable render.
Pending(fn, arg) == [t |-> "pending", s |-> <<>>, fn |-> fn, arg |-> arg]
\* A runtime Macro object: its body, its defining frame, its construct.
MacroObj(body, link, owner) ==
    [t |-> "macro", s |-> <<>>, body |-> body, link |-> link, owner |-> owner]

\* Python's class hierarchy, as far as `except Exception` tells classes apart.
IsInstance(e, cls) ==
    CASE cls = "BaseException" -> TRUE
      [] cls = "Exception" -> e.cls \in {"UndefinedError", "ZeroDivisionError"}
      [] OTHER -> e.cls = cls

\* str(value)
ToStr(v) == IF v.t = "str" THEN v ELSE
            IF v.t = "none" THEN Str(<<"None">>) ELSE Str(v.s)

RECURSIVE Join(_)
Join(buf) == IF buf = <<>> THEN <<>> ELSE ToStr(Head(buf)).s \o Join(Tail(buf))

\* ast.literal_eval on the texts the model can spell.
LiteralEval(s) ==
    CASE s = <<"None">> -> None
      [] s = <<"True">> -> Bool(TRUE)
      [] s = <<"False">> -> Bool(FALSE)
      [] OTHER -> Str(s)

\* environment.concat: "".join in Environment, native_concat in
\* NativeEnvironment.
Concat(buf, nat) ==
    IF ~nat THEN Str(Join(buf))
    ELSE IF buf = <<>> THEN None
    ELSE IF Len(buf) = 1 /\ buf[1].t # "str" THEN buf[1]
    ELSE LiteralEval(Join(buf))

\* The finalize step of an Output node: str() unless native.
Finalize(v, nat) == IF nat THEN v ELSE ToStr(v)

(***************************************************************************)
(* Nodes.                                                                  *)
(***************************************************************************)
Atoms == {"data", "undef", "div", "exit", "none", "exception", "is_defined"}

\* nodes.Output([...]) of one expression, at token `lineno`.
Output(expr, lineno) == [type |-> "Output", expr |-> expr, lineno |-> lineno]
\* nodes.Output([nodes.TemplateData('')])
EmptyOutput == Output("empty", 0)
Name(name, ctx) == [type |-> "Name", name |-> name, ctx |-> ctx]
Macro(name, args, body) ==
    [type |-> "Macro", name |-> name, args |-> args, body |-> body]
CallBlock(method, args, body, lineno) ==
    [type |-> "CallBlock", method |-> method, args |-> args, body |-> body,
     lineno |-> lineno]
Scope(body, lineno) == [type |-> "Scope", body |-> body, lineno |-> lineno]

(***************************************************************************)
(* The parser.                                                             *)
(***************************************************************************)
ParseFail == [ok |-> FALSE, stmts |-> <<>>, pos |-> 0]

\* Variant: the statement list is handed on as it is.
OrEmptyKeep(stmts) == stmts

\* _parse_statements_or_empty, after parser.parse_statements returned stmts.
OrEmpty(stmts) == IF stmts = <<>> THEN <<EmptyOutput>> ELSE stmts

\* Variant: the handler's name is passed whether or not a catch was parsed.
TryCatchArgsAlways(has_catch) == <<Name("_on_catch", "load")>>

\* try_catch_args: the handler's name when a catch clause was parsed.
TryCatchArgs(has_catch) ==
    IF has_catch THEN <<Name("_on_catch", "load")>> ELSE <<>>

\* out_nodes: the catch macro when a catch clause was parsed.
OutNodes(has_catch, catch_body) ==
    IF has_catch
    THEN <<Macro("_on_catch", <<Name("exception", "param")>>, catch_body)>>
    ELSE <<>>

\* Variant: the try-body is rendered in place, ahead of the CallBlock.
BodyInline(out_nodes, args, try_body, lineno) ==
    out_nodes \o try_body
    \o <<CallBlock("_try_catch", args, <<EmptyOutput>>, lineno)>>

\* body: the catch macro, if any, then the CallBlock that calls the
\* dispatcher with the try-body as its block.
Body(out_nodes, args, try_body, lineno) ==
    out_nodes \o <<CallBlock("_try_catch", args, try_body, lineno)>>

\* Variant: the nodes are returned without the enclosing Scope.
EncaseNothing(body, lineno) == body

\* What parse() returns for the nodes it built.
Encase(body, lineno) == <<Scope(body, lineno)>>

RECURSIVE ParseStatements(_, _, _)
RECURSIVE Parse(_, _)

\* The host's parser.parse_statements(end_tokens), from token pos on.
ParseStatements(toks, pos, end_tokens) ==
    IF pos > Len(toks)
    THEN [ok |-> end_tokens = {}, stmts |-> <<>>, pos |-> pos]
    ELSE IF toks[pos] \in end_tokens
    THEN [ok |-> TRUE, stmts |-> <<>>, pos |-> pos]
    ELSE IF toks[pos] = "try"
    THEN LET r == Parse(toks, pos) IN
         IF ~r.ok THEN ParseFail
         ELSE LET rest == ParseStatements(toks, r.pos, end_tokens) IN
              [ok |-> rest.ok, stmts |-> r.stmts \o rest.stmts,
               pos |-> rest.pos]
    ELSE IF toks[pos] \in Atoms
    THEN LET rest == ParseStatements(toks, pos + 1, end_tokens) IN
         [ok |-> rest.ok,
          stmts |-> <<Output(toks[pos], pos)>> \o rest.stmts,
          pos |-> rest.pos]
    ELSE ParseFail

\* _parse_statements_or_empty(parser, end_tokens)
ParseStatementsOrEmpty(toks, pos, end_tokens) ==
    LET r == ParseStatements(toks, pos, end_tokens) IN
    IF r.ok THEN [r EXCEPT !.stmts = OrEmpty(r.stmts)] ELSE r

\* TryCatchExtension.parse, the stream standing at the `try` token.
Parse(toks, pos) ==
    LET lineno == pos
        try_body == ParseStatementsOrEmpty(toks, pos + 1, {"endtry", "catch"})
    IN
    IF ~try_body.ok THEN ParseFail
    ELSE
    LET has_catch == toks[try_body.pos] = "catch"
        catch_body == IF has_catch
                      THEN ParseStatementsOrEmpty(toks, try_body.pos + 1,
                                                  {"endtry"})
                      ELSE [ok |-> TRUE, stmts |-> <<>>, pos |-> try_body.pos]
    IN
    IF ~catch_body.ok THEN ParseFail
    ELSE IF toks[catch_body.pos] # "endtry" THEN ParseFail
    ELSE
    LET body == Body(OutNodes(has_catch, catch_body.stmts),
                     TryCatchArgs(has_catch), try_body.stmts, lineno)
    IN [ok |-> TRUE, stmts |-> Encase(body, lineno),
        pos |-> catch_body.pos + 1]

\* Environment.from_string(source): the whole template.
ParseTemplateSource(toks) == ParseStatements(toks, 1, {})


(***************************************************************************)
(* The renderer's frames.                                                  *)
(***************************************************************************)
NoEvent == [t |-> "none", v |-> None]
Event(t, v) == [t |-> t, v |-> v]
NoOutcome == [t |-> "none", v |-> None]
Value(v) == [t |-> "value", v |-> v]
Raised(e) == [t |-> "raised", v |-> e]

\* A frame that runs statements: the template ("root"), a Scope node
\* ("scope"), a CallBlock's body ("caller") or a Macro's body ("macro").
BlockFrame(kind, stmts, link, lineno, exception, act, mark) ==
    [kind |-> kind, stmts |-> stmts, buf |-> <<>>, link |-> link,
     lineno |-> lineno, on_catch |-> Undefined, exception |-> exception,
     pc |-> "", catch_body |-> None, caller |-> <<>>, inbox |-> NoEvent,
     act |-> act, mark |-> mark]

\* An activation of the dispatcher: _try_catch(catch_body, caller=caller).
DispFrame(catch_body, caller, link, lineno, act) ==
    [kind |-> "disp", stmts |-> <<>>, buf |-> <<>>, link |-> link,
     lineno |-> lineno, on_catch |-> Undefined, exception |-> Undefined,
     pc |-> "enter", catch_body |-> catch_body, caller |-> caller,
     inbox |-> Event("enter", None), act |-> act, mark |-> 0]

RootFrame(stmts) == BlockFrame("root", stmts, 0, 0, Undefined, 0, 0)

\* Name lookup along the lexical chain of frame i.
RECURSIVE Resolve(_, _, _)
Resolve(st, i, name) ==
    IF i = 0 THEN Undefined
    ELSE IF name = "_on_catch" /\ st[i].on_catch.t # "undefined"
    THEN st[i].on_catch
    ELSE IF name = "exception" /\ st[i].exception.t # "undefined"
    THEN st[i].exception
    ELSE Resolve(st, st[i].link, name)

\* The frame whose buffer frame i writes to: a Scope shares its parent's.
RECURSIVE BufIndex(_, _)
BufIndex(st, i) == IF st[i].kind = "scope" THEN BufIndex(st, st[i].link) ELSE i

Emit(st, i, v) ==
    LET b == BufIndex(st, i) IN [st EXCEPT ![b].buf = Append(@, v)]

Pop(st) == SubSeq(st, 1, Len(st) - 1)

\* The innermost dispatcher activation at or below frame i, 0 if none.
RECURSIVE Handler(_, _)
Handler(st, i) ==
    IF i = 0 THEN 0 ELSE IF st[i].kind = "disp" THEN i ELSE Handler(st, i - 1)

\* An exception leaves frame Len(st): the frames down to the innermost
\* dispatcher activation are dropped, and the exception arrives there.
Unwind(st, e) ==
    LET h == Handler(st, Len(st)) IN
    IF h = 0 THEN <<>>
    ELSE [SubSeq(st, 1, h) EXCEPT ![h].inbox = Event("exc", e)]

(***************************************************************************)
(* Expressions of Output nodes.  The result is a value or an exception.    *)
(***************************************************************************)
EvalExpr(expr, lineno, st, i) ==
    CASE expr = "empty" -> Value(Str(<<>>))
      [] expr = "data" -> Value(Str(<<"a">>))
      [] expr = "none" -> Value(None)
      [] expr = "undef" -> Raised(Exc("UndefinedError", lineno))
      [] expr = "div" -> Raised(Exc("ZeroDivisionError", lineno))
      [] expr = "exit" -> Raised(Exc("SystemExit", lineno))
      [] expr = "exception" ->
            LET v == Resolve(st, i, "exception") IN
            IF v.t = "undefined"
            THEN Raised(Exc("UndefinedError", lineno))
            ELSE Value(v)
      [] expr = "is_defined" ->
            Value(Bool(Resolve(st, i, "_on_catch").t # "undefined"))

(***************************************************************************)
(* The dispatchers.  A dispatcher activation reacts to an event: it was    *)
(* entered, a callable it called returned a value, or an exception         *)
(* arrived.  Its answer is a command for the renderer.                     *)
(***************************************************************************)
Return(v) == [do |-> "return", fn |-> "", v |-> v, pc |-> ""]
Reraise(e) == [do |-> "raise", fn |-> "", v |-> e, pc |-> ""]
Call(fn, arg, at) == [do |-> "call", fn |-> fn, v |-> arg, pc |-> at]
Await(p, at) == [do |-> "await", fn |-> p.fn, v |-> p, pc |-> at]

\* Variant: `except UndefinedError as exception`
CatchesUndefinedOnly(e) == IsInstance(e, "UndefinedError")

\* `except Exception as exception`
Catches(e) == IsInstance(e, "Exception")

\* `if catch_body:`
Truthy(v) == v.t \notin {"none", "undefined"}

\* inspect.isawaitable(res)
IsAwaitable(v) == v.t = "pending"

\* Variant: `return str(caller())`
TryResultStr(v) == Return(ToStr(v))

\* `return caller()` / `return res`: the try-body's value.
TryResult(v) == Return(v)

\* Variant: `return None`
NoHandlerResultNone == Return(None)

\* `return ''`: no catch handler was supplied.
NoHandlerResult == Return(Str(<<>>))

\* Variant: the handler is never called.
OnExceptionNoCall(catch_body, e, at) == NoHandlerResult

\* The except clause's body: call the handler, or return ''.
OnException(catch_body, e, at) ==
    IF Truthy(catch_body) THEN Call("catch", e, at) ELSE NoHandlerResult

\* Variant: the handler's call is guarded too and its error swallowed.
HandlerRaisedSwallowed(e) == Return(Str(<<>>))

\* An exception raised by the handler: the except clause has no try of its
\* own.
HandlerRaised(e) == Reraise(e)

\* Variant: the handler's result is returned without awaiting it.
AwaitNever(v, at) == Return(v)

\* `if inspect.isawaitable(x): x = await x` then `return x`.
AwaitIfAwaitable(v, at) == IF IsAwaitable(v) THEN Await(v, at) ELSE Return(v)

\* _sync_try_catch
SyncTryCatch(f, ev) ==
    CASE f.pc = "enter" -> Call("caller", None, "79")
      [] f.pc = "79" /\ ev.t = "value" -> TryResult(ev.v)
      [] f.pc = "79" /\ ev.t = "exc" ->
            IF Catches(ev.v) THEN OnException(f.catch_body, ev.v, "82")
            ELSE Reraise(ev.v)
      [] f.pc = "82" /\ ev.t = "value" -> Return(ev.v)
      [] f.pc = "82" /\ ev.t = "exc" -> HandlerRaised(ev.v)

\* _try_catch
AsyncTryCatch(f, ev) ==
    CASE f.pc = "enter" -> Call("caller", None, "91")
      [] f.pc = "91" /\ ev.t = "value" ->
            IF IsAwaitable(ev.v) THEN Await(ev.v, "93") ELSE TryResult(ev.v)
      [] f.pc = "93" /\ ev.t = "value" -> TryResult(ev.v)
      [] f.pc \in {"91", "93"} /\ ev.t = "exc" ->
            IF Catches(ev.v) THEN OnException(f.catch_body, ev.v, "97")
            ELSE Reraise(ev.v)
      [] f.pc = "97" /\ ev.t = "value" -> AwaitIfAwaitable(ev.v, "99")
      [] f.pc = "99" /\ ev.t = "value" -> Return(ev.v)
      [] f.pc \in {"97", "99"} /\ ev.t = "exc" -> HandlerRaised(ev.v)

\* @async_variant(_sync_try_catch): the environment selects the variant.
TryCatch(async, f, ev) ==
    IF async THEN AsyncTryCatch(f, ev) ELSE SyncTryCatch(f, ev)

(***************************************************************************)
(* Template sources.                                                       *)
(***************************************************************************)
Text(k) == [i \in 1..k |-> "data"]

\* A block: up to MaxOut text chunks, then at most one expression.
Blocks ==
    {Text(k) \o last : k \in 0..MaxOut,
                       last \in {<<>>} \cup {<<a>> : a \in Atoms \ {"data"}}}

SrcTry(b) == <<"try">> \o b \o <<"endtry">>
SrcTryCatch(b, c) == <<"try">> \o b \o <<"catch">> \o c \o <<"endtry">>

\* Constructs that hold no other construct.
Flat == {SrcTry(b) : b \in Blocks} \cup {SrcTryCatch(b, c) : b \in Blocks, c \in Blocks}

\* Constructs small enough to sit inside another one.
SmallBlocks == {<<>>, <<"data">>, <<"undef">>, <<"exit">>}
Inner ==
    {SrcTry(b) : b \in SmallBlocks}
    \cup {SrcTryCatch(b, c) : b \in SmallBlocks,
                           c \in {<<>>, <<"exception">>, <<"undef">>}}

\* A construct inside the try-body, or inside the catch-body, of another.
Nested ==
    {SrcTry(i \o post) : i \in Inner, post \in {<<>>, <<"is_defined">>}}
    \cup {SrcTryCatch(i \o post, c) :
            i \in Inner, post \in {<<>>, <<"is_defined">>, <<"undef">>},
            c \in {<<"data">>, <<"exception">>}}
    \cup {SrcTryCatch(b, i) : b \in {<<"undef">>, <<"data">>}, i \in Inner}

\* Sources the parser rejects.
Malformed ==
    {<<"try">>, <<"catch">>, <<"endtry">>, <<"try", "data">>,
     <<"try", "catch">>, <<"try", "catch", "data">>,
     <<"try", "catch", "catch", "endtry">>, <<"try", "endtry", "endtry">>,
     <<"try", "try", "endtry">>, <<"data", "catch">>}

Sources ==
    {c \o tail : c \in Flat \cup Nested, tail \in {<<>>, <<"is_defined">>}}
    \cup Malformed

(***************************************************************************)
(* The state machine.                                                      *)
(***************************************************************************)
Init ==
    /\ source \in Sources
    /\ native \in BOOLEAN
    /\ is_async = FALSE
    /\ deferred = FALSE
    /\ pc = "parse"
    /\ ast = <<>>
    /\ stack = <<>>
    /\ outcome = NoOutcome
    /\ acts = <<>>
    /\ checks = <<>>
    /\ sync_outcome = NoOutcome
    /\ sync_acts = <<>>

Rendering == pc \in {"sync", "async"} /\ stack # <<>>
Top == stack[Len(stack)]
Running == Rendering /\ Top.kind # "disp" /\ Top.stmts # <<>>
Advance(st) == [st EXCEPT ![Len(st)].stmts = Tail(@)]

\* A new activation record.
Act(lineno, catch_body) ==
    [lineno |-> lineno, catch_body |-> catch_body, try |-> NoOutcome,
     partial |-> <<>>, calls |-> <<>>, handler |-> NoOutcome,
     exit |-> NoOutcome, shown |-> <<>>, left |-> FALSE]

\* What the activations learn when exception e leaves frame Len(st): the
\* callable of the innermost activation raised.
NoteRaise(as, st, e) ==
    LET h == Handler(st, Len(st)) IN
    IF h = 0 \/ h = Len(st) THEN as
    ELSE LET callee == st[h + 1]
             a == st[h].act
         IN IF callee.kind = "caller"
            THEN [as EXCEPT ![a].try = Raised(e), ![a].partial = callee.buf]
            ELSE [as EXCEPT ![a].handler = Raised(e)]

\* Exception e leaves the top frame of st.
Throw(st, e) ==
    /\ stack' = Unwind(st, e)
    /\ outcome' = IF Handler(st, Len(st)) = 0 THEN Raised(e) ELSE outcome

\* Environment.from_string(source)
ParseTemplate ==
    /\ pc = "parse"
    /\ LET r == ParseTemplateSource(source) IN
       /\ ast' = r.stmts
       /\ pc' = IF r.ok THEN "sync" ELSE "syntax_error"
       /\ stack' = IF r.ok THEN <<RootFrame(r.stmts)>> ELSE <<>>
    /\ UNCHANGED <<source, native, is_async, deferred, outcome, acts, checks,
                   sync_outcome, sync_acts>>

\* An Output node: evaluate, finalize and write, or raise.
ExecOutput ==
    /\ Running
    /\ Head(Top.stmts).type = "Output"
    /\ LET node == Head(Top.stmts)
           r == EvalExpr(node.expr, node.lineno, stack, Len(stack))
       IN
       /\ checks' = IF node.expr = "is_defined"
                    THEN Append(checks, [at |-> node.lineno,
                                         value |-> r.v = Bool(TRUE)])
                    ELSE checks
       /\ IF r.t = "value"
          THEN /\ stack' = Emit(Advance(stack), Len(stack),
                                Finalize(r.v, native))
               /\ UNCHANGED <<outcome, acts>>
          ELSE /\ Throw(stack, r.v)
               /\ acts' = NoteRaise(acts, stack, r.v)
    /\ UNCHANGED <<source, native, is_async, deferred, pc, ast,
                   sync_outcome, sync_acts>>

\* A Scope node: a new lexical scope writing to the enclosing buffer.
EnterScope ==
    /\ Running
    /\ Head(Top.stmts).type = "Scope"
    /\ LET node == Head(Top.stmts)
           n == Len(stack)
           mark == Len(stack[BufIndex(stack, n)].buf)
       IN stack' = Append(Advance(stack),
                          BlockFrame("scope", node.body, n, node.lineno,
                                     Undefined, 0, mark))
    /\ UNCHANGED <<source, native, is_async, deferred, pc, ast, outcome,
                   acts, checks, sync_outcome, sync_acts>>

\* A Macro node: bind the macro's name in the current scope.
DefineMacro ==
    /\ Running
    /\ Head(Top.stmts).type = "Macro"
    /\ LET node == Head(Top.stmts)
           n == Len(stack)
       IN stack' = [Advance(stack) EXCEPT
                      ![n].on_catch = MacroObj(node.body, n, Top.lineno)]
    /\ UNCHANGED <<source, native, is_async, deferred, pc, ast, outcome,
                   acts, checks, sync_outcome, sync_acts>>

\* A CallBlock node: evaluate the call's arguments and enter the dispatcher
\* with the node's body as `caller`.
CallExtension ==
    /\ Running
    /\ Head(Top.stmts).type = "CallBlock"
    /\ LET node == Head(Top.stmts)
           n == Len(stack)
           catch_body == IF node.args = <<>> THEN None
                         ELSE Resolve(stack, n, node.args[1].name)
           a == Len(acts) + 1
       IN
       /\ stack' = Append(Advance(stack),
                          DispFrame(catch_body, node.body, n, node.lineno, a))
       /\ acts' = Append(acts, Act(node.lineno, catch_body))
    /\ UNCHANGED <<source, native, is_async, deferred, pc, ast, outcome,
                   checks, sync_outcome, sync_acts>>

\* The frame that runs callable fn of dispatcher frame f with argument arg.
BodyFrame(f, fn, arg) ==
    IF fn = "caller"
    THEN BlockFrame("caller", f.caller, f.link, f.lineno, Undefined, f.act, 0)
    ELSE BlockFrame("macro", f.catch_body.body, f.catch_body.link,
                    f.catch_body.owner, arg, f.act, 0)

\* The dispatcher reacts to the event in its inbox.
Dispatch ==
    /\ Rendering
    /\ Top.kind = "disp"
    /\ Top.inbox.t # "none"
    /\ LET n == Len(stack)
           f == Top
           cmd == TryCatch(is_async, f, f.inbox)
           idle == [f EXCEPT !.inbox = NoEvent, !.pc = cmd.pc]
           called == IF cmd.do = "call" /\ cmd.fn = "catch"
                     THEN [acts EXCEPT ![f.act].calls =
                             Append(@, [handler |-> f.catch_body,
                                        arg |-> cmd.v])]
                     ELSE acts
       IN
       CASE cmd.do = "call" /\ is_async /\ deferred ->
              /\ stack' = [stack EXCEPT ![n] =
                             [idle EXCEPT !.inbox =
                                Event("value", Pending(cmd.fn, cmd.v))]]
              /\ acts' = called
              /\ UNCHANGED outcome
         [] cmd.do = "call" /\ ~(is_async /\ deferred) ->
              /\ stack' = Append([stack EXCEPT ![n] = idle],
                                 BodyFrame(f, cmd.fn, cmd.v))
              /\ acts' = called
              /\ UNCHANGED outcome
         [] cmd.do = "await" ->
              /\ stack' = Append([stack EXCEPT ![n] = idle],
                                 BodyFrame(f, cmd.v.fn, cmd.v.arg))
              /\ UNCHANGED <<acts, outcome>>
         [] cmd.do = "return" ->
              /\ stack' = Emit(Pop(stack), f.link, cmd.v)
              /\ acts' = [acts EXCEPT ![f.act].exit = Value(cmd.v)]
              /\ UNCHANGED outcome
         [] cmd.do = "raise" ->
              /\ Throw(Pop(stack), cmd.v)
              /\ acts' = NoteRaise([acts EXCEPT ![f.act].exit = Raised(cmd.v)],
                                   Pop(stack), cmd.v)
    /\ UNCHANGED <<source, native, is_async, deferred, pc, ast, checks,
                   sync_outcome, sync_acts>>

\* The statements of a frame are done.
LeaveBlock ==
    /\ Rendering
    /\ Top.kind # "disp"
    /\ Top.stmts = <<>>
    /\ LET n == Len(stack)
           f == Top
           v == Concat(f.buf, native)
       IN
       CASE f.kind = "root" ->
              /\ stack' = <<>>
              /\ outcome' = Value(v)
              /\ UNCHANGED acts
         [] f.kind = "scope" ->
              /\ stack' = Pop(stack)
              /\ acts' = [a \in DOMAIN acts |->
                            IF acts[a].lineno = f.lineno /\ ~acts[a].left
                            THEN [acts[a] EXCEPT
                                    !.left = TRUE,
                                    !.shown =
                                      LET b == stack[BufIndex(stack, n)].buf
                                      IN SubSeq(b, f.mark + 1, Len(b))]
                            ELSE acts[a]]
              /\ UNCHANGED outcome
         [] f.kind \in {"caller", "macro"} ->
              /\ stack' = [Pop(stack) EXCEPT ![n - 1].inbox = Event("value", v)]
              /\ acts' = IF f.kind = "caller"
                         THEN [acts EXCEPT ![f.act].try = Value(v)]
                         ELSE [acts EXCEPT ![f.act].handler = Value(v)]
              /\ UNCHANGED outcome
    /\ UNCHANGED <<source, native, is_async, deferred, pc, ast, checks,
                   sync_outcome, sync_acts>>

\* template.render() is over; template.render_async() of the same source
\* starts, its block callables returning awaitables or plain values.
RenderAsync ==
    /\ pc = "sync"
    /\ stack = <<>>
    /\ \E d \in BOOLEAN : deferred' = d
    /\ pc' = "async"
    /\ is_async' = TRUE
    /\ sync_outcome' = outcome
    /\ sync_acts' = acts
    /\ outcome' = NoOutcome
    /\ acts' = <<>>
    /\ checks' = <<>>
    /\ stack' = <<RootFrame(ast)>>
    /\ UNCHANGED <<source, native, ast>>

\* template.render_async() is over.
Finish ==
    /\ pc = "async"
    /\ stack = <<>>
    /\ pc' = "done"
    /\ UNCHANGED <<source, native, is_async, deferred, ast, stack, outcome,
                   acts, checks, sync_outcome, sync_acts>>

Next ==
    \/ ParseTemplate
    \/ ExecOutput
    \/ EnterScope
    \/ DefineMacro
    \/ CallExtension
    \/ Dispatch
    \/ LeaveBlock
    \/ RenderAsync
    \/ Finish

Spec == Init /\ [][Next]_vars

TypeOK == pc \in {"parse", "sync", "async", "done", "syntax_error"}

(***************************************************************************)
(* What the template text says, read off the tokens alone.                 *)
(***************************************************************************)
\* The `endtry` that closes a construct, scanning from token i at depth d.
RECURSIVE MatchFrom(_, _, _)
MatchFrom(toks, i, d) ==
    IF i > Len(toks) THEN 0
    ELSE IF toks[i] = "try" THEN MatchFrom(toks, i + 1, d + 1)
    ELSE IF toks[i] = "endtry"
    THEN (IF d = 0 THEN i ELSE MatchFrom(toks, i + 1, d - 1))
    ELSE MatchFrom(toks, i + 1, d)

\* The construct's own `catch`, 0 if it has none.
RECURSIVE CatchFrom(_, _, _)
CatchFrom(toks, i, d) ==
    IF i > Len(toks) THEN 0
    ELSE IF toks[i] = "try" THEN CatchFrom(toks, i + 1, d + 1)
    ELSE IF toks[i] = "endtry"
    THEN (IF d = 0 THEN 0 ELSE CatchFrom(toks, i + 1, d - 1))
    ELSE IF toks[i] = "catch" /\ d = 0 THEN i
    ELSE CatchFrom(toks, i + 1, d)

EndOf(p) == MatchFrom(source, p + 1, 0)
CatchOf(p) == CatchFrom(source, p + 1, 0)
HasCatchClause(p) == CatchOf(p) # 0
TryBodyEnd(p) == IF HasCatchClause(p) THEN CatchOf(p) ELSE EndOf(p)
EmptyTryBlock(p) == TryBodyEnd(p) = p + 1
EmptyCatchBlock(p) == HasCatchClause(p) /\ EndOf(p) = CatchOf(p) + 1
\* Token q lies inside the construct at p / inside its try-body.
Inside(q, p) == p < q /\ q < EndOf(p)
InTryBody(q, p) == p < q /\ q < TryBodyEnd(p)
TryPositions == {p \in 1..Len(source) : source[p] = "try"}

\* try / catch / endtry are balanced, at most one catch per construct.
RECURSIVE Balanced(_, _, _)
Balanced(toks, i, open) ==
    IF i > Len(toks) THEN open = <<>>
    ELSE IF toks[i] = "try" THEN Balanced(toks, i + 1, <<FALSE>> \o open)
    ELSE IF toks[i] = "catch"
    THEN open # <<>> /\ ~Head(open)
         /\ Balanced(toks, i + 1, <<TRUE>> \o Tail(open))
    ELSE IF toks[i] = "endtry"
    THEN open # <<>> /\ Balanced(toks, i + 1, Tail(open))
    ELSE Balanced(toks, i + 1, open)

WellFormed == Balanced(source, 1, <<>>)

\* The render in progress has ended, with a value or an exception.
Over == pc \in {"sync", "async", "done"} /\ stack = <<>>
Acts == DOMAIN acts
Empty == Str(<<>>)
OrdinaryError(o) == o.t = "raised" /\ IsInstance(o.v, "Exception")

(***************************************************************************)
(* C1.  A try-body that completes without raising: the dispatcher returns  *)
(* exactly the value the body produced (None stays None in native mode),   *)
(* and the catch handler is never invoked.                                 *)
(***************************************************************************)
C1_TryValueReturnedUnchanged ==
    \A a \in Acts :
        acts[a].try.t = "value" =>
            /\ acts[a].calls = <<>>
            /\ acts[a].handler.t = "none"
            /\ acts[a].exit \in {NoOutcome, Value(acts[a].try.v)}
            /\ Over => acts[a].exit = Value(acts[a].try.v)
            /\ acts[a].left => acts[a].shown = <<acts[a].try.v>>

C1_Witness ==
    /\ Over /\ native /\ is_async /\ deferred
    /\ \E a \in Acts :
        /\ HasCatchClause(acts[a].lineno)
        /\ acts[a].try = Value(None)
        /\ acts[a].exit = Value(None)

(***************************************************************************)
(* C2.  As stated: no catch clause and the try-body raises; then the       *)
(* result is the empty string and the exception does not propagate past    *)
(* the construct.                                                          *)
(***************************************************************************)
C2_AsStated ==
    \A a \in Acts :
        (~HasCatchClause(acts[a].lineno) /\ acts[a].try.t = "raised") =>
            /\ acts[a].exit \in {NoOutcome, Value(Empty)}
            /\ Over => acts[a].exit = Value(Empty)

(***************************************************************************)
(* C2, amended.  No catch clause and the try-body raises an instance of    *)
(* Exception; then the result is the empty string and the exception does   *)
(* not propagate past the construct.                                       *)
(***************************************************************************)
C2_NoCatchYieldsEmpty ==
    \A a \in Acts :
        (~HasCatchClause(acts[a].lineno) /\ OrdinaryError(acts[a].try)) =>
            /\ acts[a].calls = <<>>
            /\ acts[a].exit \in {NoOutcome, Value(Empty)}
            /\ Over => acts[a].exit = Value(Empty)
            /\ acts[a].left => acts[a].shown = <<Empty>>

C2_Witness ==
    /\ Over /\ is_async
    /\ outcome.t = "value"
    /\ \E a \in Acts :
        /\ ~HasCatchClause(acts[a].lineno)
        /\ acts[a].try.t = "raised"
        /\ acts[a].try.v.cls = "ZeroDivisionError"
        /\ acts[a].partial # <<>>
        /\ acts[a].exit = Value(Empty)

(***************************************************************************)
(* C3.  As stated: a catch clause and the try-body raises; then the        *)
(* handler is invoked exactly once with the raised exception, bound to     *)
(* `exception` in the catch-body, the result is the handler's result, and  *)
(* the raised error does not propagate past the construct.                 *)
(***************************************************************************)
HandlerCalledOnce(a) ==
    /\ Len(acts[a].calls) <= 1
    /\ \A k \in DOMAIN acts[a].calls : acts[a].calls[k].arg = acts[a].try.v
    /\ Over => Len(acts[a].calls) = 1
    /\ acts[a].handler.t = "value" =>
          acts[a].exit \in {NoOutcome, acts[a].handler}
    /\ (Over /\ acts[a].handler.t = "value") => acts[a].exit = acts[a].handler
    /\ acts[a].exit # Raised(acts[a].try.v)

ExceptionBound ==
    \A i \in DOMAIN stack :
        stack[i].kind = "macro" =>
            /\ acts[stack[i].act].try.t = "raised"
            /\ stack[i].exception = acts[stack[i].act].try.v

C3_AsStated ==
    \A a \in Acts :
        (HasCatchClause(acts[a].lineno) /\ acts[a].try.t = "raised") =>
            HandlerCalledOnce(a)

(***************************************************************************)
(* C3, amended.  A catch clause and the try-body raises an instance of     *)
(* Exception; then the handler is invoked exactly once with the raised     *)
(* exception, bound to `exception` in the catch-body, the result is the    *)
(* handler's result, and the raised error does not propagate past the      *)
(* construct.                                                              *)
(***************************************************************************)
C3_HandlerInvokedOnce ==
    /\ ExceptionBound
    /\ \A a \in Acts :
        (HasCatchClause(acts[a].lineno) /\ OrdinaryError(acts[a].try)) =>
            HandlerCalledOnce(a)

C3_Witness ==
    /\ Over /\ ~is_async
    /\ \E a \in Acts :
        /\ HasCatchClause(acts[a].lineno)
        /\ acts[a].try.t = "raised"
        /\ Len(acts[a].calls) = 1
        /\ acts[a].handler = Value(Str(<<"a", "UndefinedError">>))
        /\ acts[a].exit = acts[a].handler

(***************************************************************************)
(* C4.  An exception raised while the handler is invoked (or, in the       *)
(* suspend-capable path, awaited) is not caught by the construct: it       *)
(* propagates unmodified, the handler is not invoked again, and no other   *)
(* result is substituted.                                                  *)
(***************************************************************************)
C4_HandlerErrorPropagates ==
    \A a \in Acts :
        acts[a].handler.t = "raised" =>
            /\ Len(acts[a].calls) = 1
            /\ acts[a].exit \in {NoOutcome, acts[a].handler}
            /\ Over => acts[a].exit = acts[a].handler
            /\ ~acts[a].left

C4_Witness ==
    /\ Over /\ is_async /\ deferred
    /\ outcome.t = "raised"
    /\ \E a \in Acts :
        /\ acts[a].try.t = "raised"
        /\ acts[a].handler.t = "raised"
        /\ acts[a].handler.v.cls = "UndefinedError"
        /\ acts[a].handler.v # acts[a].try.v
        /\ outcome = acts[a].handler

(***************************************************************************)
(* C5.  As stated: whatever the kind of error the try-body raises, the     *)
(* construct yields the handler's result or the empty string, and the      *)
(* error does not escape.                                                  *)
(***************************************************************************)
Caught(a) ==
    /\ acts[a].exit # Raised(acts[a].try.v)
    /\ Over => IF HasCatchClause(acts[a].lineno)
               THEN acts[a].handler.t # "none" /\ acts[a].exit = acts[a].handler
               ELSE acts[a].exit = Value(Empty)

C5_AsStated ==
    \A a \in Acts : acts[a].try.t = "raised" => Caught(a)

(***************************************************************************)
(* C5, amended.  Whatever the class of the error the try-body raises, as   *)
(* long as it is an instance of Exception, the construct yields the        *)
(* handler's result or the empty string, and the error does not escape.    *)
(* (Errors that derive from BaseException only pass through.)              *)
(***************************************************************************)
C5_EveryExceptionCaught ==
    \A a \in Acts : OrdinaryError(acts[a].try) => Caught(a)

C5_Witness ==
    /\ Over
    /\ \E a \in Acts :
        /\ HasCatchClause(acts[a].lineno)
        /\ acts[a].try.t = "raised"
        /\ acts[a].try.v.cls = "ZeroDivisionError"
        /\ acts[a].handler = Value(Str(<<"ZeroDivisionError">>))
        /\ acts[a].exit = acts[a].handler

(***************************************************************************)
(* C6.  The blocking and the suspend-capable dispatcher behave alike: on   *)
(* the same template both renders end with the same value or the same      *)
(* exception, and every activation takes the same course, also when the    *)
(* block callables of the suspend-capable render return awaitables.        *)
(***************************************************************************)
C6_SyncAsyncAgree ==
    pc = "done" => /\ outcome = sync_outcome
                   /\ acts = sync_acts

C6_Witness ==
    /\ pc = "done" /\ deferred
    /\ \E a \in Acts :
        /\ acts[a].try.t = "raised"
        /\ acts[a].handler.t = "value"
        /\ acts[a].exit = acts[a].handler
        /\ sync_acts[a].exit = acts[a].handler

(***************************************************************************)
(* C7.  Past the matching endtry the construct's handler binding           *)
(* `_on_catch` is not observable: only the construct's own scope frame     *)
(* holds it, and an `is defined` test of the name is true only inside a    *)
(* construct that has a catch clause, never after its endtry.              *)
(***************************************************************************)
EnclosedByCatchConstruct(q) ==
    \E p \in TryPositions : HasCatchClause(p) /\ Inside(q, p)

C8_ResultAtomic ==
    \A a \in Acts :
        /\ acts[a].exit.t = "value" =>
              \/ acts[a].try.t = "value" /\ acts[a].exit = acts[a].try
              \/ /\ acts[a].try.t = "raised"
                 /\ acts[a].handler.t = "value"
                 /\ acts[a].exit = acts[a].handler
              \/ /\ acts[a].try.t = "raised"
                 /\ acts[a].calls = <<>>
                 /\ acts[a].exit = Value(Empty)
        /\ acts[a].left =>
              /\ acts[a].exit.t = "value"
              /\ acts[a].shown = <<acts[a].exit.v>>

C8_Witness ==
    /\ Over
    /\ \E a \in Acts :
        /\ acts[a].try.t = "raised"
        /\ acts[a].partial = <<Str(<<"a">>)>>
        /\ acts[a].handler = Value(Str(<<"a">>))
        /\ acts[a].left
        /\ acts[a].shown = <<Str(<<"a">>)>>
        /\ outcome = Value(Str(<<"a">>))

(***************************************************************************)
(* C9.  A textually empty block is no parse error and renders as the       *)
(* empty string: the parser hands on a single empty-text Output for an     *)
(* empty statement list and the statement list itself otherwise.           *)
(***************************************************************************)
BlockStatements(first) ==
    ParseStatements(source, first, {"endtry", "catch"}).stmts

OwnHandler(a) ==
    LET p == acts[a].lineno
        h == acts[a].catch_body
    IN
    /\ h.t \in {"macro", "none"}
    /\ h.t = "macro" <=> HasCatchClause(p)
    /\ h.t = "macro" =>
          /\ h.owner = p
          /\ \A k \in DOMAIN h.body :
                \/ h.body[k] = EmptyOutput
                \/ CatchOf(p) < h.body[k].lineno /\ h.body[k].lineno < EndOf(p)
    /\ \A k \in DOMAIN acts[a].calls : acts[a].calls[k].handler.owner = p

\* An exception the inner construct a handled does not reach construct b.
HandledStaysInside(a, b) ==
    (a # b /\ acts[a].try.t = "raised" /\ acts[a].exit.t = "value") =>
        /\ acts[b].try # Raised(acts[a].try.v)
        /\ \A k \in DOMAIN acts[b].calls :
              acts[b].calls[k].arg # acts[a].try.v

\* a: a construct without catch, in the try-body of b, which has one.
CatchlessInTry(a, b) ==
    /\ ~HasCatchClause(acts[a].lineno)
    /\ HasCatchClause(acts[b].lineno)
    /\ InTryBody(acts[a].lineno, acts[b].lineno)

(* C10 as stated: moreover a catch-less inner try in the try-body of an   *)
(* outer try with a catch clause yields the empty string when its body    *)
(* raises and never invokes the outer handler, and an exception the inner *)
(* construct handled does not trigger the outer one.                      *)
C10_AsStated ==
    /\ \A a \in Acts : OwnHandler(a)
    /\ \A a \in Acts, b \in Acts : HandledStaysInside(a, b)
    /\ \A a \in Acts, b \in Acts :
          (CatchlessInTry(a, b) /\ acts[a].try.t = "raised") =>
              /\ acts[a].calls = <<>>
              /\ Over => acts[a].exit = Value(Empty)
              /\ \A k \in DOMAIN acts[b].calls :
                    acts[b].calls[k].arg # acts[a].try.v

(* C10, amended: moreover a catch-less inner try in the try-body of an    *)
(* outer try with a catch clause yields the empty string when its body    *)
(* raises an instance of Exception and never invokes the outer handler,   *)
(* and an exception the inner construct handled does not trigger the      *)
(* outer one.                                                             *)
C10_OwnHandlerOnly ==
    /\ \A a \in Acts : OwnHandler(a)
    /\ \A a \in Acts, b \in Acts : HandledStaysInside(a, b)
    /\ \A a \in Acts, b \in Acts :
          (CatchlessInTry(a, b) /\ OrdinaryError(acts[a].try)) =>
              /\ acts[a].calls = <<>>
              /\ Over => acts[a].exit = Value(Empty)
              /\ \A k \in DOMAIN acts[b].calls :
                    acts[b].calls[k].arg # acts[a].try.v

C10_Witness ==
    /\ Over /\ outcome = Value(Empty)
    /\ \E a \in Acts, b \in Acts :
        /\ CatchlessInTry(a, b)
        /\ acts[a].try.t = "raised"
        /\ acts[a].exit = Value(Empty)
        /\ acts[b].try = Value(Empty)
        /\ acts[b].calls = <<>>

=============================================================================
